---------------------------- MODULE Spec2Model ----------------------------
(***************************************************************************)
(* Gesture recognizer (Touches, touches.ts) and transform engine           *)
(* (IvyPinch, ivypinch.ts) of ngx-pinch-zoom, as one state machine.        *)
(*                                                                         *)
(* Numbers are JavaScript numbers restricted to the rationals plus NaN,    *)
(* +Infinity and -Infinity.  A number is a pair <<n, d>>: d > 0 is the     *)
(* rational n/d in lowest terms, <<0,0>> is NaN, <<1,0>> is +Infinity and  *)
(* <<-1,0>> is -Infinity.                                                  *)
(***************************************************************************)
EXTENDS Integers, Sequences, FiniteSets, TLC

(***************************************************************************)
(* JavaScript number arithmetic                                            *)
(***************************************************************************)
Sign(i) == IF i > 0 THEN 1 ELSE IF i < 0 THEN -1 ELSE 0

AbsInt(i) == IF i < 0 THEN -i ELSE i

RECURSIVE Gcd(_, _)
Gcd(a, b) == IF b = 0 THEN a ELSE Gcd(b, a % b)

Norm(n, d) ==
    IF d = 0 THEN <<Sign(n), 0>>
    ELSE LET Lowest(g) == <<(Sign(d) * n) \div g, AbsInt(d) \div g>>
         IN  Lowest(Gcd(AbsInt(n), AbsInt(d)))

R(i) == <<i, 1>>

NaN == <<0, 0>>

PInf == <<1, 0>>

NInf == <<-1, 0>>

\* the value of a field that was never assigned
Undefined == <<0, -1>>

IsNaN(a) == a = NaN

IsFinite(a) == a[2] # 0

Neg(a) == <<-a[1], a[2]>>

Add(a, b) ==
    IF IsNaN(a) \/ IsNaN(b) THEN NaN
    ELSE IF a[2] = 0 /\ b[2] = 0 THEN (IF a = b THEN a ELSE NaN)
    ELSE IF a[2] = 0 THEN a
    ELSE IF b[2] = 0 THEN b
    ELSE LET Sum(g) == Norm(a[1] * (b[2] \div g) + b[1] * (a[2] \div g), a[2] * (b[2] \div g))
         IN  Sum(Gcd(a[2], b[2]))

Sub(a, b) == Add(a, Neg(b))

\* common factors are cancelled before the products are formed
Mul(a, b) ==
    IF a[2] = 0 \/ b[2] = 0 \/ a[1] = 0 \/ b[1] = 0 THEN Norm(a[1] * b[1], a[2] * b[2])
    ELSE LET Product(g1, g2) == Norm((a[1] \div g1) * (b[1] \div g2), (a[2] \div g2) * (b[2] \div g1))
         IN  Product(Gcd(AbsInt(a[1]), b[2]), Gcd(AbsInt(b[1]), a[2]))

Div(a, b) ==
    IF IsNaN(a) \/ IsNaN(b) THEN NaN
    ELSE IF b[2] = 0 THEN (IF a[2] = 0 THEN NaN ELSE R(0))
    ELSE IF b[1] = 0 THEN <<Sign(a[1]), 0>>
    ELSE IF a[2] = 0 THEN <<a[1] * Sign(b[1]), 0>>
    ELSE Mul(a, Norm(b[2], b[1]))

Abs(a) == <<AbsInt(a[1]), a[2]>>

\* a < b, false when either side is NaN
Lt(a, b) ==
    /\ ~IsNaN(a)
    /\ ~IsNaN(b)
    /\ IF a[2] = 0 /\ b[2] = 0 THEN a[1] < b[1]
       ELSE IF a[2] = 0 \/ b[2] = 0 THEN a[1] * b[2] < b[1] * a[2]
       ELSE LET Less(g) == a[1] * (b[2] \div g) < b[1] * (a[2] \div g)
            IN  Less(Gcd(a[2], b[2]))

Gt(a, b) == Lt(b, a)

\* a === b on numbers: NaN is equal to nothing
Eq(a, b) == ~IsNaN(a) /\ ~IsNaN(b) /\ a = b

Le(a, b) == Lt(a, b) \/ Eq(a, b)

Ge(a, b) == Le(b, a)

\* truthiness of a number: 0 and NaN are falsy
Truthy(a) == ~IsNaN(a) /\ a # R(0)

\* Math.sqrt on the perfect squares the input sets produce
Sqrt(n) == CHOOSE r \in 0..n : r * r = n


(***************************************************************************)
(* Configuration (params.ts) and program constants                         *)
(***************************************************************************)
defaultMaxScale == 3

doubleTapMinTimeout == 300

tapMinTimeout == 200

SwipeSamples == 3

OriginalImageSize == "original image size"

\* defaultParams, with the three flags it leaves undefined (limitPan,
\* disablePan, autoHeight) written as FALSE; limitZoom is [kind |-> "number", value |-> n]
\* or [kind |-> OriginalImageSize, value |-> NaN]
defaultParams ==
    [ transitionDuration |-> 200,
      doubleTap          |-> TRUE,
      doubleTapScale     |-> R(2),
      limitZoom          |-> [kind |-> OriginalImageSize, value |-> NaN],
      autoZoomOut        |-> FALSE,
      zoomControlScale   |-> R(1),
      minPanScale        |-> Norm(10001, 10000),
      minScale           |-> R(0),
      wheel              |-> TRUE,
      wheelZoomFactor    |-> Norm(1, 5),
      listeners          |-> "mouse and touch",
      limitPan           |-> FALSE,
      disablePan         |-> FALSE,
      autoHeight         |-> FALSE ]

(***************************************************************************)
(* State                                                                   *)
(*   params  the engine's merged configuration (fixed at construction)     *)
(*   geo     what the geometry provider answers: the parent rectangle's    *)
(*           origin and size, the surface's and the image's offset size    *)
(*   env     the page and the pointer device: whether the surface element  *)
(*           exists, whether an image element is inside it, the image's    *)
(*           natural width (0 until it has loaded), the polling intervals  *)
(*           that are set and how many were ever started, and the mouse    *)
(*           buttons held down                                             *)
(*   ivy     the fields of IvyPinch, and the transform last written        *)
(*   tch     the fields of Touches                                         *)
(*   touches the contacts currently down (TouchEvent.touches)              *)
(*   now     the clock (Date.getTime), in ms                               *)
(*   emitted the semantic events passed to runHandler by the last handler  *)
(*   hist    observations of past operations: the last two releases, the   *)
(*           toggle-zoom calls made in a row, the set-zoom round trip, the *)
(*           counts of pinch gestures and wheel events so far, and the     *)
(*           unrounded scale of the last wheel step                        *)
(*   inp     the device and the sets the raw events' inputs are drawn from *)
(*           (fixed)                                                       *)
(***************************************************************************)
VARIABLES params, geo, env, ivy, tch, touches, now, emitted, hist, inp

vars == <<params, geo, env, ivy, tch, touches, now, emitted, hist, inp>>

(***************************************************************************)
(* Geometry provider                                                       *)
(***************************************************************************)
\* element.parentElement.getBoundingClientRect(): left, top
getElementPosition == [left |-> R(geo.left), top |-> R(geo.top)]

getImageHeight == R(geo.imgH)

getImageWidth == R(geo.imgW)

\* Touch.clientX / clientY of contact index (1-based here), or the mouse
\* position; any other event type leaves them undefined (NaN in arithmetic)
getClientPosition(event, index) ==
    IF event.type \in {"touchstart", "touchmove"}
    THEN [clientX |-> R(event.touches[index].x), clientY |-> R(event.touches[index].y)]
    ELSE IF event.type \in {"mousedown", "mousemove"}
    THEN [clientX |-> R(event.x), clientY |-> R(event.y)]
    ELSE [clientX |-> NaN, clientY |-> NaN]

moveLeft(event, index) == Sub(getClientPosition(event, index).clientX, getElementPosition.left)

moveTop(event, index) == Sub(getClientPosition(event, index).clientY, getElementPosition.top)

\* page coordinates equal client coordinates: the document is not scrolled
getDistance(tl) ==
    R(Sqrt((tl[1].x - tl[2].x) * (tl[1].x - tl[2].x) + (tl[1].y - tl[2].y) * (tl[1].y - tl[2].y)))

(***************************************************************************)
(* IvyPinch: helpers on the engine record e                                *)
(***************************************************************************)
transformElement(e, duration) ==
    [e EXCEPT !.transform = [scale |-> e.scale, x |-> e.moveX, y |-> e.moveY, duration |-> duration]]

updateInitialValues(e) ==
    [e EXCEPT !.initialScale = e.scale, !.initialMoveX = e.moveX, !.initialMoveY = e.moveY]

limitPanY(e) ==
    LET imgHeight == getImageHeight
        parentHeight == R(geo.parentH)
        elementHeight == R(geo.elemH)
        \* bound: scaledImgHeight + Math.abs(imgOffsetTop) - parentHeight
        Within(imgOffsetTop, bound) ==
            IF Gt(e.moveY, imgOffsetTop) THEN [e EXCEPT !.moveY = imgOffsetTop]
            ELSE IF Lt(Add(bound, e.moveY), R(0)) THEN [e EXCEPT !.moveY = Neg(bound)]
            ELSE e
        Larger(scaledImgHeight, imgOffsetTop) ==
            Within(imgOffsetTop, Sub(Add(scaledImgHeight, Abs(imgOffsetTop)), parentHeight))
        Limit(scaledImgHeight) ==
            IF Lt(scaledImgHeight, parentHeight)
            THEN [e EXCEPT !.moveY = Div(Sub(parentHeight, Mul(elementHeight, e.scale)), R(2))]
            ELSE Larger(scaledImgHeight, Div(Mul(Sub(imgHeight, elementHeight), e.scale), R(2)))
    IN  Limit(Mul(imgHeight, e.scale))

limitPanX(e) ==
    LET imgWidth == getImageWidth
        parentWidth == R(geo.parentW)
        elementWidth == R(geo.elemW)
        \* bound: scaledImgWidth + Math.abs(imgOffsetLeft) - parentWidth
        Within(imgOffsetLeft, bound) ==
            IF Gt(e.moveX, imgOffsetLeft) THEN [e EXCEPT !.moveX = imgOffsetLeft]
            ELSE IF Lt(Add(bound, e.moveX), R(0)) THEN [e EXCEPT !.moveX = Neg(bound)]
            ELSE e
        Larger(scaledImgWidth, imgOffsetLeft) ==
            Within(imgOffsetLeft, Sub(Add(scaledImgWidth, Abs(imgOffsetLeft)), parentWidth))
        Limit(scaledImgWidth) ==
            IF Lt(scaledImgWidth, parentWidth)
            THEN [e EXCEPT !.moveX = Div(Sub(parentWidth, Mul(elementWidth, e.scale)), R(2))]
            ELSE Larger(scaledImgWidth, Div(Mul(Sub(imgWidth, elementWidth), e.scale), R(2)))
    IN  Limit(Mul(imgWidth, e.scale))

\* the state centeringImage leaves; img: getImageElement() finds an element
centeringImage(e) ==
    LET NotBelow(e0) == IF Gt(e0.moveY, R(0)) THEN [e0 EXCEPT !.moveY = R(0)] ELSE e0
        NotRight(e1) == IF Gt(e1.moveX, R(0)) THEN [e1 EXCEPT !.moveX = R(0)] ELSE e1
        \* lowX: this.element.offsetWidth * (1 - this.scale)
        Shrunk(e3, lowX) ==
            IF Lt(e3.scale, R(1)) /\ Lt(e3.moveX, lowX) THEN [e3 EXCEPT !.moveX = lowX] ELSE e3
        Small(e3) == Shrunk(e3, Mul(R(geo.elemW), Sub(R(1), e3.scale)))
    IN  IF env.img THEN Small(limitPanX(limitPanY(NotRight(NotBelow(e)))))
        ELSE NotRight(NotBelow(e))

\* the value centeringImage returns, from the state e it starts in and the
\* state c it leaves: initialMoveX !== moveX || initialMoveY !== moveY
centeringImageChanged(e, c) == ~Eq(e.moveX, c.moveX) \/ ~Eq(e.moveY, c.moveY)

alignImage(e) ==
    LET Aligned(c) ==
            IF centeringImageChanged(e, c)
            THEN transformElement(updateInitialValues(c), params.transitionDuration)
            ELSE c
    IN  Aligned(centeringImage(e))

\* resetScale leaving the translation as it is
resetScaleOnly(e) ==
    transformElement(updateInitialValues([e EXCEPT !.scale = R(1)]), params.transitionDuration)

\* resetScale writing the transform without a transition
resetScaleInstant(e) ==
    transformElement(updateInitialValues([e EXCEPT !.scale = R(1), !.moveX = R(0), !.moveY = R(0)]), 0)

resetScale(e) ==
    transformElement(
        updateInitialValues([e EXCEPT !.scale = R(1), !.moveX = R(0), !.moveY = R(0)]),
        params.transitionDuration)

\* handleLimitZoom without its lower clamp
handleLimitZoomMaxOnly(e) == IF Gt(e.scale, e.maxScale) THEN [e EXCEPT !.scale = e.maxScale] ELSE e

\* handleLimitZoom without its upper clamp
handleLimitZoomMinOnly(e) ==
    IF Le(e.scale, params.minScale) THEN [e EXCEPT !.scale = params.minScale] ELSE e

handleLimitZoom(e) ==
    LET limitZoom == e.maxScale
        minScale == IF Truthy(params.minScale) THEN params.minScale ELSE R(0)
        imageWidth == getImageWidth
        imageHeight == getImageHeight
        ClampMax(scale) == IF Gt(scale, limitZoom) THEN limitZoom ELSE scale
        ClampMin(scale) == IF Le(scale, minScale) THEN minScale ELSE scale
        \* moveXRatio, moveYRatio are taken before the scale is clamped
        Clamped(moveXRatio, moveYRatio, scale) ==
            [e EXCEPT !.scale = scale,
                      !.moveX = Neg(Abs(Mul(moveXRatio, Sub(Mul(imageWidth, scale), imageWidth)))),
                      !.moveY = Neg(Abs(Mul(Neg(moveYRatio), Sub(Mul(imageHeight, scale), imageHeight))))]
    IN  IF Gt(e.scale, limitZoom) \/ Le(e.scale, minScale)
        THEN Clamped(Div(e.moveX, Sub(Mul(imageWidth, e.scale), imageWidth)),
                     Div(e.moveY, Sub(Mul(imageHeight, e.scale), imageHeight)),
                     ClampMin(ClampMax(e.scale)))
        ELSE e

(***************************************************************************)
(* Handlers work on a record w = [ivy, tch, out]: the engine's fields, the *)
(* recognizer's fields, and the names runHandler has been called with      *)
(* during the dispatch of one raw event.                                   *)
(***************************************************************************)
addEventListeners(w, ls) == [w EXCEPT !.tch.listeners = @ \cup ls]

removeEventListeners(w, ls) == [w EXCEPT !.tch.listeners = @ \ ls]

(***************************************************************************)
(* IvyPinch: event handlers                                                *)
(***************************************************************************)
getTouchstartPosition(e, event) ==
    LET pos == getClientPosition(event, 1)
    IN  [e EXCEPT !.startX = Sub(pos.clientX, getElementPosition.left),
                  !.startY = Sub(pos.clientY, getElementPosition.top)]

IvyPinch_handleTouchstart(w, event) ==
    LET Started(w1) ==
            IF w1.ivy.eventType = "none"
            THEN [w1 EXCEPT !.ivy = getTouchstartPosition(w1.ivy, event)]
            ELSE w1
    IN  Started(addEventListeners(w, {"mousemove"}))

IvyPinch_handleTouchend(w, event) ==
    LET \* restore original image position: c is what centeringImage leaves of e
        Restored(e, c) ==
            IF centeringImageChanged(e, c) THEN transformElement(c, params.transitionDuration) ELSE c
        \* event.type === 'touchend'
        MinScale(e) == IF Lt(e.scale, R(1)) THEN [e EXCEPT !.scale = R(1)] ELSE e
        AutoZoomOut(e) ==
            IF params.autoZoomOut /\ e.eventType = "pinch" THEN [e EXCEPT !.scale = R(1)] ELSE e
        Align(e) ==
            IF e.eventType = "pinch" \/ (e.eventType = "pan" /\ Gt(e.scale, params.minPanScale))
            THEN alignImage(e) ELSE e
        Update(e) ==
            IF e.eventType \in {"pinch", "pan", "horizontal-swipe", "vertical-swipe"}
            THEN updateInitialValues(e) ELSE e
        Ended(e) == [e EXCEPT !.eventType = IF Len(event.touches) = 0 THEN "none" ELSE "touchend"]
        \* event.type === 'mouseup'
        Up(e) == [updateInitialValues(e) EXCEPT !.eventType = "none"]
        ByType(e) ==
            IF event.type = "touchend" THEN Ended(Update(Align(AutoZoomOut(MinScale(e)))))
            ELSE IF event.type = "mouseup" THEN Up(e)
            ELSE e
    IN  removeEventListeners(
            [w EXCEPT !.ivy = ByType(Restored(w.ivy, centeringImage(w.ivy)))], {"mousemove"})

IvyPinch_handleTouchcancel(w, event) ==
    LET Cancelled(e) == [updateInitialValues(e) EXCEPT !.eventType = "none"]
    IN  removeEventListeners(
            [w EXCEPT !.ivy = Cancelled(alignImage([w.ivy EXCEPT !.scale = R(1)]))], {"mousemove"})

\* a pan handler that only looks at the scale
IvyPinch_handlePanScaleOnly(w, event) ==
    LET pos == getClientPosition(event, 1)
        Start(e) ==
            IF e.eventType = "none"
            THEN [e EXCEPT !.startX = Sub(pos.clientX, getElementPosition.left),
                           !.startY = Sub(pos.clientY, getElementPosition.top)]
            ELSE e
        Move(e) ==
            [e EXCEPT !.eventType = "pan",
                      !.moveX = Add(e.initialMoveX, Sub(moveLeft(event, 1), e.startX)),
                      !.moveY = Add(e.initialMoveY, Sub(moveTop(event, 1), e.startY))]
        Limit(e) == IF params.limitPan THEN limitPanX(limitPanY(e)) ELSE e
    IN  IF Lt(w.ivy.scale, params.minPanScale)
        THEN w
        ELSE [w EXCEPT !.ivy = transformElement(Limit(Move(Start(w.ivy))), 0)]

IvyPinch_handlePan(w, event) ==
    LET pos == getClientPosition(event, 1)
        Start(e) ==
            IF e.eventType = "none"
            THEN [e EXCEPT !.startX = Sub(pos.clientX, getElementPosition.left),
                           !.startY = Sub(pos.clientY, getElementPosition.top)]
            ELSE e
        Move(e) ==
            [e EXCEPT !.eventType = "pan",
                      !.moveX = Add(e.initialMoveX, Sub(moveLeft(event, 1), e.startX)),
                      !.moveY = Add(e.initialMoveY, Sub(moveTop(event, 1), e.startY))]
        Limit(e) == IF params.limitPan THEN limitPanX(limitPanY(e)) ELSE e
    IN  IF Lt(w.ivy.scale, params.minPanScale) \/ params.disablePan
        THEN w
        ELSE [w EXCEPT !.ivy = transformElement(Limit(Move(Start(w.ivy))), 0)]

IvyPinch_handlePinch(w, event) ==
    LET tl == event.touches
        Entry(e) ==
            IF e.eventType = "none"
            THEN [e EXCEPT !.initialDistance = getDistance(tl),
                           !.moveXC = Sub(Div(Add(moveLeft(event, 1), moveLeft(event, 2)), R(2)), e.initialMoveX),
                           !.moveYC = Sub(Div(Add(moveTop(event, 1), moveTop(event, 2)), R(2)), e.initialMoveY)]
            ELSE e
        \* ratio: this.distance / this.initialDistance
        Scaled(e, ratio) ==
            [e EXCEPT !.eventType = "pinch",
                      !.scale = Mul(e.initialScale, ratio),
                      !.moveX = Sub(e.initialMoveX, Sub(Mul(ratio, e.moveXC), e.moveXC)),
                      !.moveY = Sub(e.initialMoveY, Sub(Mul(ratio, e.moveYC), e.moveYC))]
        Pinch(e) == Scaled(e, Div(getDistance(tl), e.initialDistance))
        Limit(e) == IF params.limitPan THEN limitPanX(limitPanY(e)) ELSE e
    IN  IF w.ivy.eventType \in {"none", "pinch"}
        THEN [w EXCEPT !.ivy = transformElement(Limit(handleLimitZoom(Pinch(Entry(w.ivy)))), 0)]
        ELSE w

\* setZoom without the call of centeringImage
setZoomUncentered(e, scale, center) ==
    LET Moved(e1, scalingPercent) ==
            [e1 EXCEPT !.moveX = Sub(e1.initialMoveX, Sub(Mul(scalingPercent, center[1]), center[1])),
                       !.moveY = Sub(e1.initialMoveY, Sub(Mul(scalingPercent, center[2]), center[2]))]
        Zoom(e1) == Moved(e1, Div(e1.scale, e1.initialScale))
    IN  transformElement(updateInitialValues(Zoom([e EXCEPT !.scale = scale])), params.transitionDuration)

setZoom(e, scale, center) ==
    LET visibleAreaWidth == R(geo.elemW)
        xCenter == center[1]
        yCenter == center[2]
        Moved(e1, scalingPercent) ==
            [e1 EXCEPT !.moveX = Sub(e1.initialMoveX, Sub(Mul(scalingPercent, xCenter), xCenter)),
                       !.moveY = Sub(e1.initialMoveY, Sub(Mul(scalingPercent, yCenter), yCenter))]
        Zoom(e1) ==
            Moved(e1, Div(Mul(visibleAreaWidth, e1.scale), Mul(visibleAreaWidth, e1.initialScale)))
    IN  transformElement(updateInitialValues(centeringImage(Zoom([e EXCEPT !.scale = scale]))),
                         params.transitionDuration)

\* handleWheel: this.params.wheelZoomFactor || 0
wheelZoomFactor == IF Truthy(params.wheelZoomFactor) THEN params.wheelZoomFactor ELSE R(0)

\* handleWheel: newScale before it is rounded
wheelRawScale(e, deltaY) ==
    Add(e.initialScale, IF deltaY < 0 THEN wheelZoomFactor ELSE Neg(wheelZoomFactor))

\* handleWheel's newScale left as it is computed
wheelNewScaleRaw(e, deltaY) == wheelRawScale(e, deltaY)

\* handleWheel: newScale after rounding to 1 or to maxScale
wheelNewScale(e, deltaY) ==
    LET Round(newScale) ==
            IF Lt(newScale, Add(R(1), wheelZoomFactor)) THEN R(1)
            ELSE IF Lt(newScale, e.maxScale) /\ Gt(newScale, Sub(e.maxScale, wheelZoomFactor)) THEN e.maxScale
            ELSE newScale
    IN  Round(wheelRawScale(e, deltaY))

IvyPinch_handleWheel(w, event) ==
    LET e == w.ivy
        \* the cursor position over the image
        xCenter == Sub(Sub(R(event.x), getElementPosition.left), e.initialMoveX)
        yCenter == Sub(Sub(R(event.y), getElementPosition.top), e.initialMoveY)
        Zoom(newScale) ==
            IF Lt(newScale, R(1)) \/ Gt(newScale, e.maxScale) THEN w
            ELSE IF Eq(newScale, e.scale) THEN w
            ELSE [w EXCEPT !.ivy = setZoom([e EXCEPT !.scale = newScale], newScale, <<xCenter, yCenter>>)]
    IN  Zoom(wheelNewScale(e, event.deltaY))

\* event is a touchend event (it has changedTouches) or [type |-> "none"]
\* for a call without a pointer origin
toggleZoom(e, event) ==
    LET dts == params.doubleTapScale
        ByTap(p) ==
            [e EXCEPT
                !.scale = Mul(e.initialScale, dts),
                !.moveX = Sub(e.initialMoveX, Mul(Sub(R(p.x), getElementPosition.left), Sub(dts, R(1)))),
                !.moveY = Sub(e.initialMoveY, Mul(Sub(R(p.y), getElementPosition.top), Sub(dts, R(1))))]
        zoomControlScale == IF Truthy(params.zoomControlScale) THEN params.zoomControlScale ELSE R(0)
        ByControl(s) ==
            [e EXCEPT
                !.scale = s,
                !.moveX = Sub(e.initialMoveX, Div(Mul(R(geo.elemW), Sub(s, R(1))), R(2))),
                !.moveY = Sub(e.initialMoveY, Div(Mul(R(geo.elemH), Sub(s, R(1))), R(2)))]
        Zoomed(z) == transformElement(updateInitialValues(centeringImage(z)), params.transitionDuration)
    IN  IF Eq(e.initialScale, R(1))
        THEN Zoomed(IF event.type = "touchend"
                    THEN ByTap(event.changedTouches[1])
                    ELSE ByControl(Mul(e.initialScale, Add(zoomControlScale, R(1)))))
        ELSE resetScale(e)

IvyPinch_handleDoubleTap(w, event) == [w EXCEPT !.ivy = toggleZoom(@, event)]

\* setAutoHeight writes a style of the image only
IvyPinch_handleResize(w, event) == w

(***************************************************************************)
(* IvyPinch: the zoom limit and the end of the engine's life               *)
(***************************************************************************)
\* detectLimitZoom: this.maxScale ??= this.defaultMaxScale
detectLimitZoom(e) == IF e.maxScale = Undefined THEN [e EXCEPT !.maxScale = R(defaultMaxScale)] ELSE e

\* setInterval: one more polling interval is set
pollLimitZoomForOriginalImage(v) == [v EXCEPT !.polls = @ \cup {v.started + 1}, !.started = @ + 1]

\* clearInterval leaving the interval set
clearNothing(v, poll) == v

clearInterval(v, poll) == [v EXCEPT !.polls = @ \ {poll}]

\* the image element is present
getMaxScaleForOriginalImage ==
    IF env.natW # 0 /\ geo.imgW # 0 THEN Norm(env.natW, geo.imgW) ELSE Undefined

\* Touches' constructor: touchListeners by default, with touchcancel
touchEvents == {"touchstart", "touchend", "touchmove", "touchcancel"}

\* the mouseListeners IvyPinch's constructor passes
mouseEvents == {"mousedown", "mouseup", "wheel"}

\* Touches.destroy leaving the listeners that were added after construction
Touches_destroyConstructed(w) == removeEventListeners(w, touchEvents \cup mouseEvents \cup {"resize"})

\* Touches.destroy: every key of this.listeners
Touches_destroy(w) == removeEventListeners(w, w.tch.listeners)

\* removeBasicStyles clears styles only
IvyPinch_destroy(w) == Touches_destroy(w)

(***************************************************************************)
(* Touches: dispatch to the handlers IvyPinch registers                    *)
(***************************************************************************)
\* runHandler: the call is recorded in out; a name with no registered
\* handler (tap, longtap, the swipes) only leaves that record
runHandler(w, eventName, event) ==
    LET w1 == [w EXCEPT !.out = Append(@, eventName)]
    IN  CASE eventName \in {"touchstart", "mousedown"} -> IvyPinch_handleTouchstart(w1, event)
          [] eventName \in {"touchend", "mouseup"} -> IvyPinch_handleTouchend(w1, event)
          [] eventName = "touchcancel" -> IvyPinch_handleTouchcancel(w1, event)
          [] eventName = "pan" -> IvyPinch_handlePan(w1, event)
          [] eventName = "pinch" -> IvyPinch_handlePinch(w1, event)
          [] eventName = "wheel" /\ params.wheel -> IvyPinch_handleWheel(w1, event)
          [] eventName = "double-tap" /\ params.doubleTap -> IvyPinch_handleDoubleTap(w1, event)
          [] eventName = "resize" /\ params.autoHeight -> IvyPinch_handleResize(w1, event)
          [] OTHER -> w1

(***************************************************************************)
(* Touches: detection                                                      *)
(***************************************************************************)
\* the surface's bounding rectangle, taken at its layout position
Touches_getElementPosition == [left |-> R(geo.left), top |-> R(geo.top)]

detectPan(t, tl) == (Len(tl) = 1 /\ t.eventType = "none") \/ t.eventType = "pan"

detectPinch(t, event) == (Len(event.touches) = 2 /\ t.eventType = "none") \/ t.eventType = "pinch"

\* detectDoubleTap's result
detectDoubleTap(t) ==
    LET tapLength == now - t.lastTap
    IN  t.eventType = "none" /\ tapLength < doubleTapMinTimeout /\ tapLength > 0

\* the fields detectDoubleTap leaves
detectDoubleTapState(t) ==
    IF t.eventType # "none" \/ detectDoubleTap(t) THEN t ELSE [t EXCEPT !.lastTap = now]

\* runHandler for a name the engine registers no handler for (tap, longtap,
\* horizontal-swipe, vertical-swipe): handlers.has(eventName) is false
runUnhandled(w, eventName) == [w EXCEPT !.out = Append(@, eventName)]

\* detectTap without the distinction of tapMinTimeout
detectTapOnly(w) ==
    IF w.tch.eventType # "none" \/ now - w.tch.touchstartTime <= 0 THEN w
    ELSE runUnhandled(w, "tap")

detectTap(w) ==
    LET tapLength == now - w.tch.touchstartTime
    IN  IF w.tch.eventType # "none" THEN w
        ELSE IF tapLength > 0
        THEN runUnhandled(w, IF tapLength < tapMinTimeout THEN "tap" ELSE "longtap")
        ELSE w

Touches_moveLeft(event) ==
    IF event.type \in {"touchstart", "touchmove", "touchend"}
    THEN Sub(R(event.touches[1].x), Touches_getElementPosition.left)
    ELSE Sub(R(event.x), Touches_getElementPosition.left)

Touches_moveTop(event) ==
    IF event.type \in {"touchstart", "touchmove", "touchend"}
    THEN Sub(R(event.touches[1].y), Touches_getElementPosition.top)
    ELSE Sub(R(event.y), Touches_getElementPosition.top)

getLinearSwipeType(t, event) ==
    IF t.eventType \notin {"horizontal-swipe", "vertical-swipe"}
    THEN LET movementX == Abs(Sub(Touches_moveLeft(event), t.startX))
             movementY == Abs(Sub(Touches_moveTop(event), t.startY))
         IN  IF Gt(Mul(movementY, R(3)), movementX) THEN "vertical-swipe" ELSE "horizontal-swipe"
    ELSE t.eventType

\* detectLinearSwipe on a mouse event (it has no touches): whether it
\* returns a swipe type
detectLinearSwipe(t, event) ==
    t.eventType \in {"none", "horizontal-swipe", "vertical-swipe"}

(***************************************************************************)
(* Touches: listeners                                                      *)
(***************************************************************************)
Touches_handleTouchstart(w, event) ==
    LET w1 == [w EXCEPT !.tch.touchstartTime = now]
        w2 == IF w1.tch.eventType = "none"
              THEN [w1 EXCEPT !.tch.startX = Sub(R(event.touches[1].x), Touches_getElementPosition.left),
                              !.tch.startY = Sub(R(event.touches[1].y), Touches_getElementPosition.top)]
              ELSE w1
    IN  runHandler(w2, "touchstart", event)

Touches_handleTouchmove(w, event) ==
    LET Pan(w0) == IF detectPan(w0.tch, event.touches) THEN runHandler(w0, "pan", event) ELSE w0
        Pinch(w1) == IF detectPinch(w1.tch, event) THEN runHandler(w1, "pinch", event) ELSE w1
    IN  Pinch(Pan(w))

Touches_handleTouchend(w, event) ==
    LET DoubleTap(w1) == IF detectDoubleTap(w.tch) THEN runHandler(w1, "double-tap", event) ELSE w1
        Ended(w3) ==
            IF Len(event.touches) = 0
            THEN [w3 EXCEPT !.tch.eventType = "none", !.tch.detectSwipeCounter = 0]
            ELSE [w3 EXCEPT !.tch.eventType = "touchend"]
    IN  Ended(runHandler(detectTap(DoubleTap([w EXCEPT !.tch = detectDoubleTapState(w.tch)])),
                         "touchend", event))

\* a cancel that is only passed on to the engine
Touches_handleTouchcancelEngineOnly(w, event) == runHandler(w, "touchcancel", event)

Touches_handleTouchcancel(w, event) ==
    LET Cancelled(w1) == [w1 EXCEPT !.tch.eventType = "none", !.tch.detectSwipeCounter = 0]
    IN  Cancelled(runHandler(w, "touchcancel", event))

Touches_handleMousedown(w, event) ==
    LET Start(w1) ==
            IF w1.tch.eventType = "none"
            THEN [w1 EXCEPT !.tch.startX = Sub(R(event.x), Touches_getElementPosition.left),
                            !.tch.startY = Sub(R(event.y), Touches_getElementPosition.top)]
            ELSE w1
    IN  IF event.button # 0 THEN w
        ELSE runHandler(Start([w EXCEPT !.tch.isMousedown = TRUE, !.tch.touchstartTime = now]),
                        "mousedown", event)

\* a mousemove handler that does not look at the button flag
Touches_handleMousemoveUngated(w, event) ==
    LET Count(w1) == [w1 EXCEPT !.tch.detectSwipeCounter = @ + 1]
        Latch(w2) ==
            IF w2.tch.detectSwipeCounter > SwipeSamples
            THEN [w2 EXCEPT !.tch.eventType = getLinearSwipeType(w2.tch, event)]
            ELSE w2
        Swipe(w3) ==
            IF w3.tch.eventType \in {"horizontal-swipe", "vertical-swipe"}
            THEN runUnhandled(w3, w3.tch.eventType)
            ELSE w3
        LinearSwipe(w1) == IF detectLinearSwipe(w1.tch, event) THEN Swipe(Latch(Count(w1))) ELSE w1
    IN  LinearSwipe(runHandler(w, "pan", event))

Touches_handleMousemove(w, event) ==
    LET Count(w1) == [w1 EXCEPT !.tch.detectSwipeCounter = @ + 1]
        Latch(w2) ==
            IF w2.tch.detectSwipeCounter > SwipeSamples
            THEN [w2 EXCEPT !.tch.eventType = getLinearSwipeType(w2.tch, event)]
            ELSE w2
        Swipe(w3) ==
            IF w3.tch.eventType \in {"horizontal-swipe", "vertical-swipe"}
            THEN runUnhandled(w3, w3.tch.eventType)
            ELSE w3
        LinearSwipe(w1) == IF detectLinearSwipe(w1.tch, event) THEN Swipe(Latch(Count(w1))) ELSE w1
    IN  IF ~w.tch.isMousedown THEN w ELSE LinearSwipe(runHandler(w, "pan", event))

Touches_handleMouseup(w, event) ==
    LET Down(w1) == [w1 EXCEPT !.tch.isMousedown = FALSE]
        Up(w2) == [w2 EXCEPT !.tch.eventType = "none", !.tch.detectSwipeCounter = 0]
    IN  Up(runHandler(Down(detectTap(w)), "mouseup", event))

Touches_handleWheel(w, event) == runHandler(w, "wheel", event)

Touches_handleResize(w, event) == runHandler(w, "resize", event)


(***************************************************************************)
(* Bounds and input sets                                                   *)
(***************************************************************************)
\* the clock's first value: Date.getTime() is far above doubleTapMinTimeout
Epoch == 1000

\* the clock advances in steps of TickMs ms, MaxTicks of them at most
TickMs == 100

MaxTicks == 4

\* mouse moves counted by detectSwipeCounter within one press
MaxMoves == 4

\* direct calls of set-zoom in one behaviour
MaxZoomCalls == 2

\* pinch gestures entered in one behaviour
MaxPinches == 2

\* wheel events in one behaviour
MaxWheels == 3

\* polling intervals set in one behaviour
MaxPolls == 2

Pt(x, y) == [x |-> x, y |-> y]

\* Devices and input sets.  touchScreen: what detectTouchScreen answers;
\* pan: positions (client coordinates) of a single contact; pinch: positions
\* of two contacts; mouse, wheel: pointer positions; wheels: how many wheel
\* events are made; zoomScales, centers:
\* arguments of set-zoom; natural: the natural widths an image loads with;
\* samples: whether the move samples of a press are counted;
\* ticks: how many clock steps are taken.
\* TouchInputs explores the arithmetic of pinch: two contacts coinciding,
\* then 100, 200 and 400 px apart.
TouchInputs ==
    [ touchScreen |-> TRUE,
      pan   |-> {Pt(10, 120)},
      pinch |-> { <<Pt(10, 120), Pt(10, 120)>>, <<Pt(10, 120), Pt(110, 120)>>,
                  <<Pt(10, 120), Pt(210, 120)>>, <<Pt(10, 120), Pt(410, 120)>> },
      mouse |-> {},
      wheel |-> {},
      wheels |-> 0,
      zoomScales |-> {},
      centers |-> {},
      natural |-> {},
      samples |-> FALSE,
      ticks |-> 0 ]

\* PanInputs explores panning a zoomed surface along both axes
PanInputs ==
    [ touchScreen |-> TRUE,
      pan   |-> {Pt(10, 120), Pt(110, 220)},
      pinch |-> { <<Pt(10, 120), Pt(10, 120)>>, <<Pt(10, 120), Pt(110, 120)>>,
                  <<Pt(10, 120), Pt(210, 120)>> },
      mouse |-> {},
      wheel |-> {},
      wheels |-> 0,
      zoomScales |-> {},
      centers |-> {},
      natural |-> {},
      samples |-> FALSE,
      ticks |-> 0 ]

\* TapInputs explores the timing of the presses and releases of one contact
TapInputs ==
    [ touchScreen |-> TRUE,
      pan   |-> {Pt(10, 120)},
      pinch |-> {},
      mouse |-> {},
      wheel |-> {},
      wheels |-> 0,
      zoomScales |-> {},
      centers |-> {},
      natural |-> {},
      samples |-> FALSE,
      ticks |-> MaxTicks ]

\* MouseInputs explores wheel zoom, set-zoom and the zoom control
MouseInputs ==
    [ touchScreen |-> FALSE,
      pan   |-> {},
      pinch |-> {},
      mouse |-> {Pt(110, 120)},
      wheel |-> {Pt(110, 120)},
      wheels |-> MaxWheels,
      zoomScales |-> {R(1), R(2)},
      centers |-> {<<R(100), R(100)>>},
      natural |-> {},
      samples |-> FALSE,
      ticks |-> 0 ]

\* LifeInputs explores the engine's life: the image loading, being removed
\* and inserted, the polling intervals, and destroy, with mouse and wheel
LifeInputs ==
    [ touchScreen |-> FALSE,
      pan   |-> {},
      pinch |-> {},
      mouse |-> {Pt(110, 120)},
      wheel |-> {Pt(110, 120)},
      wheels |-> 1,
      zoomScales |-> {},
      centers |-> {},
      natural |-> {800},
      samples |-> FALSE,
      ticks |-> 0 ]

\* SwipeInputs explores the move samples of one contact and of the pointer
\* on one surface: 30 px across and 5 px down, or 30 px down
SwipeInputs ==
    [ touchScreen |-> TRUE,
      pan   |-> {Pt(10, 120), Pt(40, 125)},
      pinch |-> {},
      mouse |-> {Pt(10, 120), Pt(40, 125), Pt(10, 150)},
      wheel |-> {},
      wheels |-> 0,
      zoomScales |-> {},
      centers |-> {},
      natural |-> {},
      samples |-> TRUE,
      ticks |-> 0 ]

\* BothInputs explores touch and mouse on one surface: one and two contacts,
\* the contacts moving apart and together, and a mouse button
BothInputs ==
    [ touchScreen |-> TRUE,
      pan   |-> {Pt(10, 120)},
      pinch |-> { <<Pt(10, 120), Pt(110, 120)>>, <<Pt(10, 120), Pt(60, 120)>> },
      mouse |-> {Pt(10, 120)},
      wheel |-> {},
      wheels |-> 0,
      zoomScales |-> {},
      centers |-> {},
      natural |-> {},
      samples |-> FALSE,
      ticks |-> 0 ]

\* DragInputs explores the pan of a surface zoomed by a pinch: a contact at
\* one of two points, two contacts 100 px and 200 px apart
DragInputs ==
    [ touchScreen |-> TRUE,
      pan   |-> {Pt(10, 120), Pt(110, 220)},
      pinch |-> { <<Pt(10, 120), Pt(110, 120)>>, <<Pt(10, 120), Pt(210, 120)>> },
      mouse |-> {},
      wheel |-> {},
      wheels |-> 0,
      zoomScales |-> {},
      centers |-> {},
      natural |-> {},
      samples |-> FALSE,
      ticks |-> 0 ]

\* ZoomInputs explores the wheel on a surface zoomed by a pinch: the contacts
\* at one point, 100 px apart and 290 px apart
ZoomInputs ==
    [ touchScreen |-> TRUE,
      pan   |-> {Pt(10, 120)},
      pinch |-> { <<Pt(10, 120), Pt(10, 120)>>, <<Pt(10, 120), Pt(110, 120)>>,
                  <<Pt(10, 120), Pt(300, 120)>> },
      mouse |-> {},
      wheel |-> {Pt(110, 120)},
      wheels |-> 2,
      zoomScales |-> {},
      centers |-> {},
      natural |-> {},
      samples |-> FALSE,
      ticks |-> 0 ]

\* the surface fills its parent; the image is letterboxed in it
Geometries ==
    { [left |-> 10, top |-> 20, parentW |-> 400, parentH |-> 300,
       elemW |-> 400, elemH |-> 300, imgW |-> 400, imgH |-> 200] }

autoParams == [defaultParams EXCEPT !.listeners = "auto"]

\* the default configuration, one with a minimum scale above 0, one that
\* zooms out when a pinch is released, and one with pan disabled
TouchParams ==
    { autoParams, [autoParams EXCEPT !.minScale = Norm(1, 2)], [autoParams EXCEPT !.autoZoomOut = TRUE],
      [autoParams EXCEPT !.disablePan = TRUE] }

PanParams == {[autoParams EXCEPT !.limitPan = TRUE]}

TapParams == {autoParams}

\* touch and mouse listeners together
BothParams == {defaultParams}

\* the window's resize is listened to
LifeParams == {[autoParams EXCEPT !.autoHeight = TRUE]}

MouseParams ==
    {autoParams, [autoParams EXCEPT !.limitZoom = [kind |-> "number", value |-> Norm(3, 2)]]}

(***************************************************************************)
(* Initial state: the constructors of IvyPinch and Touches have run        *)
(***************************************************************************)
NoRelease ==
    [has |-> FALSE, at |-> Pt(0, 0), gap |-> 0, press |-> 0, gesture |-> "none", out |-> <<>>]

\* what is kept of the release before the last one
Before(r) == [has |-> r.has, at |-> r.at, press |-> r.press, out |-> r.out]

NoRoundTrip ==
    [stage |-> 0, calls |-> 0, scale |-> NaN, center |-> <<NaN, NaN>>, pre |-> <<NaN, NaN, NaN>>]

\* no press is being followed
NoSequence == [device |-> "none", samples |-> 0, at |-> Pt(0, 0), dir |-> "none"]

InitHist ==
    [last |-> NoRelease, prev |-> Before(NoRelease), releasedAt |-> 0, toggles |-> 0,
     trip |-> NoRoundTrip, pinches |-> 0, wheels |-> 0, wheelRaw |-> NaN,
     raised |-> FALSE, destroyed |-> FALSE, resolved |-> {}, seq |-> NoSequence,
     cancelled |-> "no", hover |-> FALSE]

InitIvy(prm) ==
    [ scale |-> R(1), initialScale |-> R(1),
      moveX |-> R(0), moveY |-> R(0), initialMoveX |-> R(0), initialMoveY |-> R(0),
      moveXC |-> R(0), moveYC |-> R(0), initialDistance |-> R(0),
      startX |-> R(0), startY |-> R(0), eventType |-> "none",
      maxScale |-> IF prm.limitZoom.kind = "number" THEN prm.limitZoom.value ELSE R(defaultMaxScale),
      transform |-> [scale |-> R(1), x |-> R(0), y |-> R(0), duration |-> 0] ]

\* the constructor returned at once (no surface element): maxScale, params
\* and touches were never assigned
NoSurface(e) == [e EXCEPT !.maxScale = Undefined]

\* Touches' constructor, called by IvyPinch's: the listeners attached
InitTouches(prm, touchScreen) ==
    [ eventType |-> "none", startX |-> R(0), startY |-> R(0), lastTap |-> 0,
      touchstartTime |-> 0, detectSwipeCounter |-> 0, isMousedown |-> FALSE,
      listeners |-> (IF prm.listeners = "mouse and touch" THEN touchEvents \cup mouseEvents
                     ELSE IF touchScreen THEN touchEvents
                     ELSE mouseEvents)
                    \cup (IF prm.autoHeight THEN {"resize"} ELSE {}) ]

\* the page when the constructor has run: the surface's first child is its
\* image (elementTarget is 'IMG'), not yet loaded; detectLimitZoom has set
\* the first polling interval if the zoom limit is the image's original size
InitEnv(prm, element) ==
    LET polling == element /\ prm.limitZoom.kind = OriginalImageSize
    IN  [ element |-> element, img |-> element, natW |-> 0,
          polls |-> IF polling THEN {1} ELSE {},
          started |-> IF polling THEN 1 ELSE 0,
          buttons |-> {} ]

\* E: whether the constructor is given a surface element
InitFrom(P, G, I, E) ==
    /\ params \in P
    /\ inp = I
    /\ geo \in G
    /\ env \in {InitEnv(params, element) : element \in E}
    /\ ivy = IF env.element THEN InitIvy(params) ELSE NoSurface(InitIvy(params))
    /\ tch = IF env.element THEN InitTouches(params, inp.touchScreen)
             ELSE [InitTouches(params, inp.touchScreen) EXCEPT !.listeners = {}]
    /\ touches = <<>>
    /\ now = Epoch
    /\ emitted = <<>>
    /\ hist = InitHist

InitWith(P, G, I) == InitFrom(P, G, I, {TRUE})

Init == InitWith(TouchParams, Geometries, TouchInputs)

InitPan == InitWith(PanParams, Geometries, PanInputs)

InitTap == InitWith(TapParams, Geometries, TapInputs)

InitMouse == InitWith(MouseParams, Geometries, MouseInputs)

InitSwipe == InitWith(BothParams, Geometries, SwipeInputs)

InitBoth == InitWith(BothParams, Geometries, BothInputs)

InitDrag == InitWith(TapParams, Geometries, DragInputs)

InitZoom == InitWith(BothParams, Geometries, ZoomInputs)

InitLife == InitFrom(LifeParams, Geometries, LifeInputs, BOOLEAN)

(***************************************************************************)
(* Actions: one raw event, dispatched to the listener Touches attached, or *)
(* one call of the engine's control surface                                *)
(***************************************************************************)
World == [ivy |-> ivy, tch |-> tch, out |-> <<>>]

Commit(w) ==
    /\ ivy' = w.ivy
    /\ tch' = w.tch
    /\ emitted' = w.out

TapNames == {"tap", "longtap", "double-tap"}

Min(a, b) == IF a < b THEN a ELSE b

\* what is observed of a release: where it happened, the time since the
\* release before it (up to doubleTapMinTimeout), the time since the contact
\* started (up to tapMinTimeout), the engine's gesture state before it, and
\* the tap events it emitted
Release(event, w) ==
    [has |-> TRUE, at |-> event.changedTouches[1],
     gap |-> IF hist.last.has THEN Min(now - hist.releasedAt, doubleTapMinTimeout)
             ELSE doubleTapMinTimeout,
     press |-> Min(now - tch.touchstartTime, tapMinTimeout),
     gesture |-> ivy.eventType, out |-> SelectSeq(w.out, LAMBDA n : n \in TapNames)]

Placement(e) == <<e.scale, e.moveX, e.moveY, e.initialScale, e.initialMoveX, e.initialMoveY>>

\* toggle-zoom calls made in a row, counted from a state with committed
\* scale 1 and no gesture in progress
Toggled ==
    IF hist.toggles = 1 THEN 2
    ELSE IF Eq(ivy.initialScale, R(1)) /\ ivy.eventType = "none" THEN 1
    ELSE 0

\* an operation other than toggle-zoom and set-zoom: it ends a set-zoom
\* round trip, and ends a row of toggle-zoom calls if it moves the surface;
\* wheelRaw is the scale the last operation computed, if it was a wheel
\* event; raised: the last operation ended with a TypeError; cancelled: the
\* engine's gesture state before the last operation, if it was a cancel;
\* hover: the last operation was a mouse move with no left button down
Other(e) ==
    [hist EXCEPT !.toggles = IF Placement(e) = Placement(ivy) THEN @ ELSE 0,
                 !.trip = [NoRoundTrip EXCEPT !.calls = hist.trip.calls],
                 !.wheelRaw = NaN,
                 !.raised = FALSE,
                 !.cancelled = "no",
                 !.hover = FALSE]

\* The sequence of move samples of one contact.  It starts when a contact
\* or the left button goes down on the idle surface (device, at), each move
\* of that contact is a sample, and the sample numbered SwipeSamples + 1
\* fixes dir by getLinearSwipeType's comparison of the displacement from at;
\* any other press or release makes it "mixed" until the surface is idle.
SwipeOf(from, to) ==
    IF 3 * AbsInt(to.y - from.y) > AbsInt(to.x - from.x) THEN "vertical-swipe" ELSE "horizontal-swipe"

SeqPress(seq, device, p, first) ==
    IF ~inp.samples THEN seq
    ELSE IF first /\ seq.device = "none"
    THEN [NoSequence EXCEPT !.device = device, !.at = p]
    ELSE [seq EXCEPT !.device = "mixed"]

SeqMove(seq, device, p) ==
    IF inp.samples /\ seq.device = device
    THEN [seq EXCEPT !.samples = @ + 1,
                     !.dir = IF seq.samples = SwipeSamples THEN SwipeOf(seq.at, p) ELSE @]
    ELSE seq

SeqRelease(seq, idle) ==
    IF ~inp.samples THEN seq
    ELSE IF idle THEN NoSequence ELSE [seq EXCEPT !.device = "mixed"]

TouchStart ==
    /\ \E tl \in {<<p>> : p \in inp.pan} \cup inp.pinch :
          LET Done(w) ==
                  /\ touches' = tl
                  /\ Commit(w)
                  /\ hist' = [Other(w.ivy) EXCEPT
                                !.seq = SeqPress(@, "touch", tl[1], Len(tl) = 1 /\ env.buttons = {})]
          IN  /\ Len(tl) = Len(touches) + 1
              /\ \A i \in 1..Len(touches) : tl[i] = touches[i]
              /\ Done(IF "touchstart" \in tch.listeners
                      THEN Touches_handleTouchstart(World, [type |-> "touchstart", touches |-> tl])
                      ELSE World)
    /\ UNCHANGED <<inp, params, geo, env, now>>

\* a move of two contacts that handlePinch takes as the entry of a pinch
PinchEntry(tl) == Len(tl) = 2 /\ tch.eventType = "none" /\ ivy.eventType = "none"

TouchMove ==
    /\ \E tl \in {<<p>> : p \in inp.pan} \cup inp.pinch :
          LET Done(w) ==
                  /\ touches' = tl
                  /\ Commit(w)
                  /\ hist' = [Other(w.ivy) EXCEPT
                                !.seq = SeqMove(@, IF Len(tl) = 1 THEN "touch" ELSE "touches", tl[1]),
                                !.pinches = IF PinchEntry(tl) THEN @ + 1 ELSE @]
          IN  /\ Len(tl) = Len(touches)
              /\ hist.seq.device = "touch" => hist.seq.samples < MaxMoves
              /\ PinchEntry(tl) => hist.pinches < MaxPinches
              /\ Done(IF "touchmove" \in tch.listeners
                      THEN Touches_handleTouchmove(World, [type |-> "touchmove", touches |-> tl])
                      ELSE World)
    /\ UNCHANGED <<inp, params, geo, env, now>>

TouchEnd ==
    /\ \E k \in 1..Len(touches) :
          LET rest == SelectSeq([i \in 1..Len(touches) |-> IF i = k THEN Pt(-1, -1) ELSE touches[i]],
                                LAMBDA q : q # Pt(-1, -1))
              event == [type |-> "touchend", touches |-> rest, changedTouches |-> <<touches[k]>>]
              listening == "touchend" \in tch.listeners
              doubleTap == listening /\ params.doubleTap /\ detectDoubleTap(tch)
              \* the release is observed when the clock runs
              Observed(h, w) ==
                  IF inp.ticks > 0
                  THEN [h EXCEPT !.last = Release(event, w), !.prev = Before(hist.last),
                                 !.releasedAt = now]
                  ELSE h
              Done(w) ==
                  /\ touches' = rest
                  /\ Commit(w)
                  /\ hist' = [Observed(IF doubleTap THEN [Other(ivy) EXCEPT !.toggles = Toggled]
                                      ELSE Other(w.ivy), w)
                                EXCEPT !.seq = SeqRelease(@, rest = <<>> /\ env.buttons = {})]
          IN  Done(IF listening THEN Touches_handleTouchend(World, event) ELSE World)
    /\ UNCHANGED <<inp, params, geo, env, now>>

TouchCancel ==
    /\ Len(touches) > 0
    /\ LET Done(w) ==
               /\ touches' = <<>>
               /\ Commit(w)
               /\ hist' = [Other(w.ivy) EXCEPT !.seq = SeqRelease(@, env.buttons = {}),
                                             !.cancelled = ivy.eventType]
       IN  Done(IF "touchcancel" \in tch.listeners
                THEN Touches_handleTouchcancel(World, [type |-> "touchcancel", touches |-> <<>>])
                ELSE World)
    /\ UNCHANGED <<inp, params, geo, env, now>>

\* a handler of a mouse or wheel event has run and left w
MouseDone(w) ==
    /\ Commit(w)
    /\ hist' = Other(w.ivy)

\* a button goes down on the surface or elsewhere in the document; the
\* mousedown listener is on the surface
MouseDown ==
    /\ \E p \in inp.mouse, b \in {0, 2} \ env.buttons, onSurface \in BOOLEAN :
          LET Done(w) ==
                  /\ Commit(w)
                  /\ hist' = [Other(w.ivy) EXCEPT
                                !.seq = SeqPress(@, "mouse", p,
                                                 b = 0 /\ onSurface /\ touches = <<>> /\ env.buttons = {})]
          IN  /\ env' = [env EXCEPT !.buttons = @ \cup {b}]
              /\ Done(IF onSurface /\ "mousedown" \in tch.listeners
                      THEN Touches_handleMousedown(World, [type |-> "mousedown", x |-> p.x, y |-> p.y,
                                                           button |-> b])
                      ELSE World)
    /\ UNCHANGED <<inp, params, geo, touches, now>>

\* the mousemove and mouseup listeners are on the document
MouseMove ==
    /\ tch.detectSwipeCounter < MaxMoves
    /\ \E p \in inp.mouse :
          LET Done(w) ==
                  /\ Commit(w)
                  /\ hist' = [Other(w.ivy) EXCEPT !.seq = SeqMove(@, "mouse", p),
                                                !.hover = 0 \notin env.buttons]
          IN  Done(IF "mousemove" \in tch.listeners
                   THEN Touches_handleMousemove(World, [type |-> "mousemove", x |-> p.x, y |-> p.y])
                   ELSE World)
    /\ UNCHANGED <<inp, params, geo, env, touches, now>>

MouseUp ==
    /\ \E p \in inp.mouse, b \in env.buttons :
          LET Done(w) ==
                  /\ Commit(w)
                  /\ hist' = [Other(w.ivy) EXCEPT
                                !.seq = SeqRelease(@, touches = <<>> /\ env.buttons = {b})]
          IN  /\ env' = [env EXCEPT !.buttons = @ \ {b}]
              /\ Done(IF "mouseup" \in tch.listeners
                      THEN Touches_handleMouseup(World, [type |-> "mouseup", x |-> p.x, y |-> p.y,
                                                         button |-> b])
                      ELSE World)
    /\ UNCHANGED <<inp, params, geo, touches, now>>

Wheel ==
    /\ hist.wheels < inp.wheels
    /\ \E p \in inp.wheel, d \in {-1, 1} :
          LET Done(w) ==
                  /\ Commit(w)
                  /\ hist' = [Other(w.ivy) EXCEPT !.wheels = @ + 1,
                                                  !.wheelRaw = wheelRawScale(ivy, d)]
          IN  Done(IF "wheel" \in tch.listeners
                    THEN Touches_handleWheel(World, [type |-> "wheel", x |-> p.x, y |-> p.y, deltaY |-> d])
                    ELSE World)
    /\ UNCHANGED <<inp, params, geo, env, touches, now>>

\* PinchZoomComponent.toggleZoom: the zoom control, no pointer origin
\* Without a surface this.params is undefined: reading zoomControlScale
\* raises a TypeError before anything is written.
ToggleZoom ==
    /\ ivy' = IF env.element THEN toggleZoom(ivy, [type |-> "none"]) ELSE ivy
    /\ emitted' = <<>>
    /\ hist' = [Other(ivy) EXCEPT !.toggles = Toggled, !.raised = ~env.element]
    /\ UNCHANGED <<inp, params, geo, env, tch, touches, now>>

\* set-zoom({scale, center}) called directly.  A call with the center of
\* the call before it and scale 1 completes a round trip; any other call
\* starts one: trip keeps its scale, and the committed scale and the
\* translation it finds (pre).
SetZoom ==
    /\ hist.trip.calls < MaxZoomCalls
    /\ \E scale \in inp.zoomScales, center \in inp.centers :
          LET back == hist.trip.stage = 1 /\ hist.trip.center = center /\ scale = R(1)
              Done(e) ==
                  /\ ivy' = e
                  /\ hist' = [Other(e) EXCEPT !.trip =
                                [stage  |-> IF back THEN 2 ELSE 1,
                                 calls  |-> hist.trip.calls + 1,
                                 scale  |-> IF back THEN hist.trip.scale ELSE scale,
                                 center |-> center,
                                 pre    |-> IF back THEN hist.trip.pre
                                            ELSE <<ivy.initialScale, ivy.moveX, ivy.moveY>>]]
          IN  Done(setZoom(ivy, scale, center))
    /\ emitted' = <<>>
    /\ UNCHANGED <<inp, params, geo, env, tch, touches, now>>

Resize ==
    /\ MouseDone(IF "resize" \in tch.listeners
                 THEN Touches_handleResize(World, [type |-> "resize"])
                 ELSE World)
    /\ UNCHANGED <<inp, params, geo, env, touches, now>>

\* detectLimitZoom called on the engine.  Without a surface maxScale gets
\* its default and reading this.params.limitZoom raises a TypeError.
DetectLimitZoom ==
    /\ env.started < MaxPolls
    /\ ivy' = detectLimitZoom(ivy)
    /\ env' = IF env.element /\ params.limitZoom.kind = OriginalImageSize
              THEN pollLimitZoomForOriginalImage(env) ELSE env
    /\ emitted' = <<>>
    /\ hist' = [Other(ivy) EXCEPT !.raised = ~env.element]
    /\ UNCHANGED <<inp, params, geo, tch, touches, now>>

\* One callback of the polling interval poll, which is set.  Without an
\* image element reading img.naturalWidth raises a TypeError and the
\* interval stays set; resolved keeps the intervals that have written
\* maxScale.
PollTickOf(poll) ==
    /\ poll \in env.polls
    /\ LET Resolve(maxScaleForOriginalImage) ==
               IF maxScaleForOriginalImage # Undefined
               THEN /\ ivy' = [ivy EXCEPT !.maxScale = maxScaleForOriginalImage]
                    /\ env' = clearInterval(env, poll)
                    /\ hist' = [hist EXCEPT !.raised = FALSE, !.resolved = @ \cup {poll}]
               ELSE /\ UNCHANGED <<ivy, env>>
                    /\ hist' = [hist EXCEPT !.raised = FALSE]
       IN  IF env.img
           THEN Resolve(getMaxScaleForOriginalImage)
           ELSE /\ UNCHANGED <<ivy, env>>
                /\ hist' = [hist EXCEPT !.raised = TRUE]
    /\ UNCHANGED <<inp, params, geo, tch, touches, now, emitted>>

PollTick == \E poll \in 1..MaxPolls : PollTickOf(poll)

\* isDragging: a query; it raises a TypeError without a surface (params is
\* undefined) and without an image element (img.offsetHeight)
IsDragging ==
    /\ hist' = [Other(ivy) EXCEPT !.raised = ~env.element \/ (~params.disablePan /\ ~env.img)]
    /\ emitted' = <<>>
    /\ UNCHANGED <<inp, params, geo, env, ivy, tch, touches, now>>

\* destroy: without a surface removeBasicStyles raises a TypeError on
\* this.element.style
Destroy ==
    /\ LET Done(w) ==
               /\ Commit(w)
               /\ hist' = [Other(w.ivy) EXCEPT !.raised = ~env.element, !.destroyed = @ \/ env.element]
       IN  Done(IF env.element THEN IvyPinch_destroy(World) ELSE World)
    /\ UNCHANGED <<inp, params, geo, env, touches, now>>

\* the image finishes loading
ImageLoad ==
    /\ env.img
    /\ env.natW = 0
    /\ \E naturalWidth \in inp.natural : env' = [env EXCEPT !.natW = naturalWidth]
    /\ UNCHANGED <<inp, params, geo, ivy, tch, touches, now, emitted, hist>>

\* the page removes the image element from the surface
ImageRemove ==
    /\ env.img
    /\ env' = [env EXCEPT !.img = FALSE, !.natW = 0]
    /\ UNCHANGED <<inp, params, geo, ivy, tch, touches, now, emitted, hist>>

\* the page inserts an image element that has not loaded
ImageInsert ==
    /\ env.element
    /\ ~env.img
    /\ env' = [env EXCEPT !.img = TRUE]
    /\ UNCHANGED <<inp, params, geo, ivy, tch, touches, now, emitted, hist>>

Tick ==
    /\ now + TickMs <= Epoch + inp.ticks * TickMs
    /\ now' = now + TickMs
    /\ UNCHANGED <<inp, params, geo, env, ivy, tch, touches, emitted, hist>>

(***************************************************************************)
(* Specifications                                                          *)
(*   Spec       a touch screen: pinch, the clock standing still            *)
(*   SpecPan    a touch screen: pinch and pan with pan limiting enabled    *)
(*   SpecTap    a touch screen: presses and releases in time, the zoom     *)
(*              control                                                    *)
(*   SpecMouse  no touch screen: mouse, wheel, zoom control, set-zoom      *)
(*   SpecSwipe  touch and mouse listeners together: one contact or the     *)
(*              pointer moving                                             *)
(*   SpecBoth   touch and mouse listeners together: one and two contacts,  *)
(*              a mouse button                                             *)
(*   SpecDrag   a touch screen: pinch, then pan between two points         *)
(*   SpecZoom   touch and mouse listeners together: pinch and the wheel     *)
(*   SpecLife   no touch screen: the engine with or without a surface, the *)
(*              image coming and going, polling, destroy                   *)
(*   SpecLifeFair  SpecLife with every polling interval firing             *)
(***************************************************************************)
Next ==
    \/ TouchStart
    \/ TouchMove
    \/ TouchEnd
    \/ TouchCancel

NextTap ==
    \/ TouchStart
    \/ TouchMove
    \/ TouchEnd
    \/ TouchCancel
    \/ ToggleZoom
    \/ Tick

NextMouse ==
    \/ MouseDown
    \/ MouseMove
    \/ MouseUp
    \/ Wheel
    \/ ToggleZoom
    \/ SetZoom

NextSwipe ==
    \/ TouchStart
    \/ TouchMove
    \/ TouchEnd
    \/ TouchCancel
    \/ MouseDown
    \/ MouseMove
    \/ MouseUp

NextBoth ==
    \/ TouchStart
    \/ TouchMove
    \/ TouchEnd
    \/ TouchCancel
    \/ MouseDown
    \/ MouseMove
    \/ MouseUp

NextZoom ==
    \/ TouchStart
    \/ TouchMove
    \/ TouchEnd
    \/ Wheel

NextLife ==
    \/ MouseDown
    \/ MouseMove
    \/ MouseUp
    \/ Wheel
    \/ Resize
    \/ ToggleZoom
    \/ DetectLimitZoom
    \/ IsDragging
    \/ Destroy
    \/ PollTick
    \/ ImageLoad
    \/ ImageRemove
    \/ ImageInsert

Spec == Init /\ [][Next]_vars

SpecPan == InitPan /\ [][Next]_vars

SpecTap == InitTap /\ [][NextTap]_vars

SpecMouse == InitMouse /\ [][NextMouse]_vars

SpecSwipe == InitSwipe /\ [][NextSwipe]_vars

SpecBoth == InitBoth /\ [][NextBoth]_vars

SpecDrag == InitDrag /\ [][Next]_vars

SpecZoom == InitZoom /\ [][NextZoom]_vars

SpecLife == InitLife /\ [][NextLife]_vars

\* setInterval: the callback of an interval that is set is called again and
\* again
SpecLifeFair == SpecLife /\ \A poll \in 1..MaxPolls : WF_vars(PollTickOf(poll))

(***************************************************************************)
(* Properties of pinch (Spec)                                              *)
(***************************************************************************)
\* the engine has processed a pinch move and no release or cancel since
InPinch == ivy.eventType = "pinch"

minScale == IF Truthy(params.minScale) THEN params.minScale ELSE R(0)

\* the distance between the two contacts of the last move
currentDistance == getDistance(touches)

\* C1: after each pinch move has been processed the live scale is at most
\* maxScale.
C1_PinchScaleAtMostMax == InPinch => Le(ivy.scale, ivy.maxScale)

\* C2 as stated, for the pinches whose contacts are apart at entry: after
\* each pinch move has been processed the live scale is strictly greater
\* than minScale.
C2_PinchScaleAboveMin == InPinch /\ Gt(ivy.initialDistance, R(0)) => Gt(ivy.scale, minScale)

\* the scale the pinch formula gives, clamped to maxScale only
PinchScaleMax ==
    LET raw == Mul(ivy.initialScale, Div(currentDistance, ivy.initialDistance))
    IN  IF Gt(raw, ivy.maxScale) THEN ivy.maxScale ELSE raw

\* C2: after each pinch move has been processed the live scale is never
\* below minScale, and it is exactly minScale when the scale the pinch
\* formula gives is at or below minScale.
C2_PinchScaleNotBelowMin ==
    InPinch => /\ ~Lt(ivy.scale, minScale)
               /\ Le(PinchScaleMax, minScale) => ivy.scale = minScale

\* a pinch move has brought the raw scale below a minimum scale above 0
C2_ClampedToMin ==
    /\ InPinch
    /\ Gt(minScale, R(0))
    /\ Lt(Mul(ivy.initialScale, Div(currentDistance, ivy.initialDistance)), minScale)
    /\ ivy.scale = minScale

\* the scale the pinch formula gives, clamped to maxScale and then raised
\* to minScale
PinchScaleRange ==
    IF Le(PinchScaleMax, minScale) THEN minScale ELSE PinchScaleMax

\* C10 as stated: during a pinch the live scale equals committedScale *
\* currentDistance / initialDistance clamped to maxScale.
C10_PinchScaleClampedToMax == InPinch => ivy.scale = PinchScaleMax

\* C10: during a pinch the live scale equals committedScale *
\* currentDistance / initialDistance (in JavaScript arithmetic) clamped to
\* maxScale, and raised to minScale when that is at or below minScale;
\* committedScale and initialDistance do not change from one pinch move to
\* the next.
C10_PinchScaleClampedToRange ==
    /\ [](InPinch => ivy.scale = PinchScaleRange)
    /\ [][InPinch /\ InPinch' => /\ ivy'.initialDistance = ivy.initialDistance
                                 /\ ivy'.initialScale = ivy.initialScale]_vars

\* committed scale 1, the contacts 100 px apart at entry and 400 px apart
\* now: the raw scale 4 is clamped to 3
C10_ClampedAtThree ==
    /\ InPinch
    /\ ivy.initialScale = R(1)
    /\ ivy.initialDistance = R(100)
    /\ currentDistance = R(400)
    /\ ivy.scale = R(3)

(***************************************************************************)
(* Properties of pan limiting (SpecPan)                                    *)
(***************************************************************************)
\* the engine has processed a pan move and no release or cancel since
InPan == ivy.eventType = "pan"

\* The surface is scaled and translated from its top left corner, and the
\* image is centred in the surface: the image's edges in the viewport
imageTop == Add(ivy.moveY, Div(Mul(ivy.scale, Sub(R(geo.elemH), R(geo.imgH))), R(2)))

imageLeft == Add(ivy.moveX, Div(Mul(ivy.scale, Sub(R(geo.elemW), R(geo.imgW))), R(2)))

CoversY ==
    /\ Le(imageTop, R(0))
    /\ Ge(Add(imageTop, Mul(ivy.scale, R(geo.imgH))), R(geo.parentH))

CoversX ==
    /\ Le(imageLeft, R(0))
    /\ Ge(Add(imageLeft, Mul(ivy.scale, R(geo.imgW))), R(geo.parentW))

\* the translation that centres the scaled image in the viewport
CenteredY == Eq(Add(imageTop, imageTop), Sub(R(geo.parentH), Mul(ivy.scale, R(geo.imgH))))

CenteredX == Eq(Add(imageLeft, imageLeft), Sub(R(geo.parentW), Mul(ivy.scale, R(geo.imgW))))

\* C3: with pan limiting enabled, after every pan move the image covers the
\* viewport on each axis where the scaled image is at least as large as the
\* viewport, and is centred on an axis where it is smaller.
C3_PanKeepsCoverage ==
    InPan /\ params.limitPan =>
        /\ IF Lt(Mul(ivy.scale, R(geo.imgH)), R(geo.parentH)) THEN CenteredY ELSE CoversY
        /\ IF Lt(Mul(ivy.scale, R(geo.imgW)), R(geo.parentW)) THEN CenteredX ELSE CoversX

(***************************************************************************)
(* Properties of taps and of the zoom toggle (SpecTap)                     *)
(***************************************************************************)
\* the tap events of the last two releases, in the order they were emitted
LastTwoOut == hist.prev.out \o hist.last.out

\* C4 as stated: two releases at the same point, more than 0 and less than
\* 300 ms apart, each less than 200 ms after its contact started, emit one
\* double-tap event and no tap event in total.
C4_OneDoubleTapNoTap ==
    /\ hist.last.has /\ hist.prev.has
    /\ hist.last.at = hist.prev.at
    /\ hist.last.gap > 0 /\ hist.last.gap < doubleTapMinTimeout
    /\ hist.last.press < tapMinTimeout /\ hist.prev.press < tapMinTimeout
    => LastTwoOut = <<"double-tap">>

\* a release with no release in the 300 ms before it and no gesture in
\* progress in the engine
SingleRelease ==
    /\ hist.last.has
    /\ hist.last.gap >= doubleTapMinTimeout
    /\ hist.last.gesture = "none"

\* C5 as stated: a single release emits exactly one event, tap when the time
\* since the contact started is below 200 ms and longtap otherwise.
C5_SingleReleaseOneEvent ==
    SingleRelease => hist.last.out = <<IF hist.last.press < tapMinTimeout THEN "tap" ELSE "longtap">>

\* C5: a single release emits no double-tap and at most one event: none when
\* it comes in the millisecond its contact started, tap when the time since
\* the contact started is above 0 and below 200 ms, longtap when it is
\* 200 ms or more.
C5_SingleReleaseByPressLength ==
    SingleRelease =>
        hist.last.out = IF hist.last.press = 0 THEN <<>>
                        ELSE IF hist.last.press < tapMinTimeout THEN <<"tap">>
                        ELSE <<"longtap">>

\* a single release 200 ms or more after its contact started has emitted
\* longtap
C5_LongPressReleased ==
    /\ SingleRelease
    /\ hist.last.press >= tapMinTimeout
    /\ hist.last.out = <<"longtap">>

\* C6 as stated, for a release that ends a pan the engine was processing:
\* it emits no tap, longtap or double-tap event.
C6_NoTapAfterPan == hist.last.has /\ hist.last.gesture = "pan" => hist.last.out = <<>>

\* C7: after two calls of toggle-zoom in a row, the first from committed
\* scale 1 with no gesture in progress, the scale is 1, the translation is
\* (0,0) and the committed values equal the live values.
C7_ToggleTwiceRestores ==
    hist.toggles = 2 =>
        /\ ivy.scale = R(1) /\ ivy.moveX = R(0) /\ ivy.moveY = R(0)
        /\ ivy.initialScale = ivy.scale
        /\ ivy.initialMoveX = ivy.moveX /\ ivy.initialMoveY = ivy.moveY

\* toggle-zoom has been called twice in a row, the second time by a
\* double-tap (with a pointer origin)
C7_ToggledTwiceByDoubleTap ==
    /\ hist.toggles = 2
    /\ \E i \in 1..Len(emitted) : emitted[i] = "double-tap"

(***************************************************************************)
(* Properties of set-zoom and of the wheel (SpecMouse)                     *)
(***************************************************************************)
\* the translation is what it was before the first call of a round trip
TranslationRestored == ivy.moveX = hist.trip.pre[2] /\ ivy.moveY = hist.trip.pre[3]

\* C8 as stated: set-zoom({scale: s, center: c}) followed by
\* set-zoom({scale: 1, center: c}) restores the translation to the value it
\* had before the first call.
C8_RoundTripRestores == hist.trip.stage = 2 => TranslationRestored

\* C8: set-zoom({scale: s, center: c}) followed by set-zoom({scale: 1,
\* center: c}) leaves the translation (0,0); that is the value it had before
\* the first call when the committed scale before the first call was 1.
C8_RoundTripFromScaleOne ==
    hist.trip.stage = 2 =>
        /\ ivy.moveX = R(0) /\ ivy.moveY = R(0)
        /\ hist.trip.pre[1] = R(1) => TranslationRestored

\* a round trip through scale 2 that started at committed scale 1
C8_RoundTripThroughTwo ==
    /\ hist.trip.stage = 2
    /\ hist.trip.scale = R(2)
    /\ hist.trip.pre[1] = R(1)
    /\ TranslationRestored

\* C9: after a wheel event whose raw scale (committed scale plus or minus
\* the step) is below 1 + step the scale is exactly 1, and after one whose
\* raw scale is strictly between maxScale - step and maxScale the scale is
\* exactly maxScale.
C9_WheelSnaps ==
    ~IsNaN(hist.wheelRaw) =>
        /\ Lt(hist.wheelRaw, Add(R(1), wheelZoomFactor)) => ivy.scale = R(1)
        /\ Gt(hist.wheelRaw, Sub(ivy.maxScale, wheelZoomFactor)) /\ Lt(hist.wheelRaw, ivy.maxScale)
               => ivy.scale = ivy.maxScale

\* a wheel event from committed scale 1.2 with maxScale 1.5 and step 0.2:
\* the raw scale 1.4 has become 1.5
C9_SnappedToMax ==
    /\ hist.wheelRaw = Norm(7, 5)
    /\ ivy.maxScale = Norm(3, 2)
    /\ ivy.scale = ivy.maxScale

(***************************************************************************)
(* Properties of the swipe latch (SpecSwipe)                               *)
(***************************************************************************)
Swipes == {"horizontal-swipe", "vertical-swipe"}

\* the last handler passed a swipe to runHandler
SwipeEmitted == \E i \in 1..Len(emitted) : emitted[i] \in Swipes

\* C11: in a sequence of moves of one contact, touch or mouse, no swipe is
\* latched or emitted before the 4th move sample; from the 4th sample until
\* the release the recognizer's state is the swipe fixed at the 4th sample:
\* vertical when 3 * |dy| > |dx| from the start point, else horizontal.
C11_SwipeLatchedAtFourthSample ==
    hist.seq.device \in {"touch", "mouse"} =>
        IF hist.seq.samples <= SwipeSamples
        THEN tch.eventType \notin Swipes /\ ~SwipeEmitted
        ELSE tch.eventType = hist.seq.dir

(***************************************************************************)
(* Properties of the committed values (SpecBoth)                           *)
(***************************************************************************)
Committed(e) == <<e.initialScale, e.initialMoveX, e.initialMoveY>>

Live(e) == <<e.scale, e.moveX, e.moveY>>

\* C12: whenever the engine's gesture state is none, the committed scale and
\* translation are the live scale and translation.
C12_CommittedEqualsLive == ivy.eventType = "none" => Committed(ivy) = Live(ivy)

(***************************************************************************)
(* Properties of the engine's life (SpecLife, SpecLifeFair)                *)
(***************************************************************************)
\* C13: after destroy no polling interval is left set and maxScale is never
\* written again.
C13_DestroyCancelsPolling ==
    /\ [](hist.destroyed => env.polls = {})
    /\ [][hist.destroyed => ivy'.maxScale = ivy.maxScale]_vars

\* a pointer, wheel or resize event
InputEvent ==
    \/ TouchStart
    \/ TouchMove
    \/ TouchEnd
    \/ TouchCancel
    \/ MouseDown
    \/ MouseMove
    \/ MouseUp
    \/ Wheel
    \/ Resize

\* C14: after destroy the recognizer's listener set is empty, and no
\* pointer, wheel or resize event changes the engine's or the recognizer's
\* fields.
C14_DestroyRemovesListeners ==
    /\ [](hist.destroyed => tch.listeners = {})
    /\ [][hist.destroyed /\ InputEvent => UNCHANGED <<ivy, tch>>]_vars

\* destroyed while the left button was down on the surface: the mousemove
\* listener added at the press has been removed with the others
C14_DestroyedWhilePressed ==
    /\ hist.destroyed
    /\ tch.isMousedown
    /\ 0 \in env.buttons
    /\ tch.listeners = {}

\* C15: an engine constructed without a surface element has no listener,
\* and its public operations neither raise an error nor change its fields.
C15_NoSurfaceNoOp ==
    ~env.element =>
        /\ tch.listeners = {}
        /\ ~hist.raised
        /\ ivy = NoSurface(InitIvy(params))

\* C16: while the surface has no image element, a pointer or wheel event or
\* a toggle-zoom call raises no error and leaves scale, translation and
\* committed values as they are.
C16_NoImageNoOp ==
    [][env.element /\ ~env.img /\ (InputEvent \/ ToggleZoom)
         => Placement(ivy') = Placement(ivy) /\ ~hist'.raised]_vars

\* the image element reports a nonzero natural and rendered width
Measurable == env.img /\ env.natW # 0 /\ geo.imgW # 0

\* C18: with the zoom limit 'original image size', maxScale is the default
\* until a polling callback resolves it; the callback that finds the image
\* measurable writes naturalWidth / renderedWidth and clears its interval;
\* nothing else writes maxScale, a cleared interval is not set again, and
\* every interval that is set is cleared if the image stays measurable.
C18_PollingResolvesMaxScale ==
    /\ [](env.element /\ hist.resolved = {} => ivy.maxScale = R(defaultMaxScale))
    /\ [](hist.resolved \cap env.polls = {})
    /\ [][hist'.resolved # hist.resolved
            => /\ Measurable
               /\ ivy'.maxScale = Norm(env.natW, geo.imgW)
               /\ env'.polls = env.polls \ (hist'.resolved \ hist.resolved)]_vars
    /\ [][env.element /\ ivy'.maxScale # ivy.maxScale => hist'.resolved # hist.resolved]_vars
    /\ \A poll \in 1..MaxPolls :
          (poll \in env.polls /\ Measurable) ~> (poll \notin env.polls \/ ~Measurable)

\* two polling intervals were set and both have resolved maxScale
C18_BothIntervalsResolved ==
    /\ hist.resolved = 1..MaxPolls
    /\ env.polls = {}
    /\ ivy.maxScale = Norm(env.natW, geo.imgW)
    /\ ivy.maxScale # R(defaultMaxScale)

(***************************************************************************)
(* Properties of pinch with coinciding contacts (Spec)                     *)
(***************************************************************************)
\* C17: in a pinch that was entered with both contacts at one point, scale
\* and translation are finite numbers and the scale is within the limits.
C17_CoincidentPinchFinite ==
    InPinch /\ ivy.initialDistance = R(0) =>
        /\ IsFinite(ivy.scale) /\ IsFinite(ivy.moveX) /\ IsFinite(ivy.moveY)
        /\ Ge(ivy.scale, minScale) /\ Le(ivy.scale, ivy.maxScale)

(***************************************************************************)
(* Properties of cancel (SpecBoth)                                         *)
(***************************************************************************)
\* C19: a cancel event leaves the recognizer in state none with its swipe
\* counter 0, emits no tap, long tap or double tap, leaves lastTap and
\* touchstartTime as they are, and leaves the engine in state none with its
\* committed values equal to its live values.
C19_CancelGoesToNone ==
    [][TouchCancel
         => /\ tch'.eventType = "none"
            /\ tch'.detectSwipeCounter = 0
            /\ \A i \in 1..Len(emitted') : emitted'[i] \notin TapNames
            /\ tch'.lastTap = tch.lastTap
            /\ tch'.touchstartTime = tch.touchstartTime
            /\ ivy'.eventType = "none"
            /\ Committed(ivy') = Live(ivy')]_vars

\* a pinch in progress has been cancelled
C19_PinchCancelled ==
    /\ hist.cancelled = "pinch"
    /\ emitted = <<"touchcancel">>
    /\ ivy.eventType = "none"
    /\ tch.eventType = "none"

(***************************************************************************)
(* Properties of mouse movement without a button (SpecSwipe)               *)
(***************************************************************************)
\* C20: a mouse move with no left button down emits no event (no pan, no
\* swipe) and changes neither the recognizer's fields (the swipe counter
\* among them) nor the engine's.
C20_HoverMoveIgnored ==
    [][MouseMove /\ 0 \notin env.buttons => emitted' = <<>> /\ UNCHANGED <<ivy, tch>>]_vars

\* the pointer has moved with no button down while the mousemove listener,
\* added at the press of a contact, was attached
C20_HoveredWhileListening ==
    /\ hist.hover
    /\ "mousemove" \in tch.listeners
    /\ env.buttons = {}
    /\ touches # <<>>

(***************************************************************************)
(* Properties of release (Spec)                                            *)
(***************************************************************************)
\* C21: after a touch release the live scale is at least 1; it is exactly 1
\* if autoZoomOut is set and the release ends a pinch; and the committed
\* values equal the live values if the release ends a pan, a pinch or a
\* swipe.
C21_ReleaseClampsAndCommits ==
    [][TouchEnd
         => /\ Ge(ivy'.scale, R(1))
            /\ (params.autoZoomOut /\ ivy.eventType = "pinch" => ivy'.scale = R(1))
            /\ (ivy.eventType \in {"pan", "pinch", "horizontal-swipe", "vertical-swipe"}
                  => Committed(ivy') = Live(ivy'))]_vars

(***************************************************************************)
(* Properties of pan (Spec)                                                *)
(***************************************************************************)
\* the recognizer has just passed a move to the pan handler
PanReceived == \E i \in 1..Len(emitted) : emitted[i] = "pan"

\* C22: a pan move received while the scale is below minPanScale, or while
\* disablePan is set, leaves every field of the engine as it is: scale,
\* translation, committed values, start point, gesture state and the
\* transform written to the surface.
C22_PanNotAllowedIsNoOp ==
    [][PanReceived' /\ (Lt(ivy.scale, params.minPanScale) \/ params.disablePan)
         => UNCHANGED ivy]_vars

\* a pan move has been received and ignored on a surface zoomed by a pinch,
\* with pan disabled
C22_PanIgnoredWhileZoomed ==
    /\ PanReceived
    /\ params.disablePan
    /\ Gt(ivy.scale, params.minPanScale)
    /\ ivy.eventType = "none"

(***************************************************************************)
(* Properties of the gesture kinds (SpecBoth)                              *)
(***************************************************************************)
\* C23: while the engine is in a pan, a move of two contacts leaves it in
\* the pan with its scale unchanged; while it is in a pinch, a move leaves
\* it in the pinch.
C23_GestureKindsExclusive ==
    /\ [][ivy.eventType = "pan" /\ TouchMove /\ Len(touches') = 2
            => ivy'.eventType = "pan" /\ ivy'.scale = ivy.scale]_vars
    /\ [][ivy.eventType = "pinch" /\ (TouchMove \/ MouseMove)
            => ivy'.eventType = "pinch"]_vars

(***************************************************************************)
(* Properties of the wheel's range (SpecZoom)                              *)
(***************************************************************************)
\* what a wheel event of direction deltaY must leave of the engine e0 in e1
WheelOutcome(e0, e1, deltaY) ==
    LET newScale == wheelNewScale(e0, deltaY)
    IN  IF Eq(newScale, e0.scale) \/ Lt(newScale, R(1)) \/ Gt(newScale, e0.maxScale)
        THEN Placement(e1) = Placement(e0)
        ELSE /\ e1.initialScale = newScale
             /\ e1.scale = newScale
             /\ Ge(newScale, R(1))
             /\ Le(newScale, e0.maxScale)

\* C24: a wheel event whose scale after snapping equals the current scale,
\* is below 1 or is above maxScale leaves scale, translation and committed
\* values as they are; any other wheel event commits that scale, which is
\* in the range [1, maxScale].
C24_WheelNoOpOrInRange ==
    [][Wheel /\ "wheel" \in tch.listeners /\ params.wheel
         => \A deltaY \in {-1, 1} :
               hist'.wheelRaw = wheelRawScale(ivy, deltaY) => WheelOutcome(ivy, ivy', deltaY)]_vars

(***************************************************************************)
(* Properties of the pan's translation (SpecDrag)                          *)
(***************************************************************************)
\* the pan handler acts on a move received in engine state e
PanAllowed(e) == ~Lt(e.scale, params.minPanScale) /\ ~params.disablePan

\* C25: with limitPan off, each move of a pan leaves the translation at the
\* committed translation plus the contact's displacement from the point
\* where it went down: the first move adds the displacement from the down
\* point to the committed translation, each later move adds the contact's
\* displacement to the translation; scale and committed values stay.
C25_PanFollowsContact ==
    [][TouchMove /\ PanReceived' /\ PanAllowed(ivy) /\ ~params.limitPan
         => /\ ivy'.moveX = Add(IF ivy.eventType = "none" THEN ivy.initialMoveX ELSE ivy.moveX,
                                R(touches'[1].x - touches[1].x))
            /\ ivy'.moveY = Add(IF ivy.eventType = "none" THEN ivy.initialMoveY ELSE ivy.moveY,
                                R(touches'[1].y - touches[1].y))
            /\ ivy'.scale = ivy.scale
            /\ Committed(ivy') = Committed(ivy)]_vars

(***************************************************************************)
(* Properties of toggle-zoom on a zoomed surface (SpecTap)                 *)
(***************************************************************************)
\* toggle-zoom is called: by the zoom control, or by the double tap that a
\* release completes
ToggleCalled ==
    \/ ToggleZoom /\ env.element
    \/ TouchEnd /\ params.doubleTap /\ \E i \in 1..Len(emitted') : emitted'[i] = "double-tap"

\* C26: toggle-zoom called with a committed scale other than 1 leaves scale
\* 1 and translation (0,0), committed, and the transform written with these
\* values and the configured transition duration, which is not 0.
C26_ToggleResetsZoomed ==
    [][ToggleCalled /\ ~Eq(ivy.initialScale, R(1))
         => /\ Live(ivy') = <<R(1), R(0), R(0)>>
            /\ Committed(ivy') = Live(ivy')
            /\ ivy'.transform = [x |-> R(0), y |-> R(0), scale |-> R(1),
                                 duration |-> params.transitionDuration]
            /\ params.transitionDuration # 0]_vars

\* toggle-zoom, called by a double tap right after the toggle-zoom call that
\* zoomed the surface, has reset it
C26_ResetByDoubleTap ==
    /\ \E i \in 1..Len(emitted) : emitted[i] = "double-tap"
    /\ hist.toggles = 2
    /\ Live(ivy) = <<R(1), R(0), R(0)>>
    /\ ivy.transform.duration = params.transitionDuration

(***************************************************************************)
(* Properties of a release that leaves a contact down (SpecBoth)           *)
(***************************************************************************)
\* recognizer and engine are in the state a release with a contact left
\* down puts them in
InTouchend == tch.eventType = "touchend" /\ ivy.eventType = "touchend"

\* the last handler passed a pan or a pinch to runHandler
GestureProcessed == \E i \in 1..Len(emitted) : emitted[i] \in {"pan", "pinch"}

\* C27: a touch release that leaves a contact down puts recognizer and
\* engine in the touchend state with scale and translation at their
\* committed values; there they stay, with no pan or pinch processed,
\* through every press, every move and every release that leaves a contact
\* down; the release of the last contact or a cancel returns both to none.
C27_TouchendStateHolds ==
    /\ [][TouchEnd /\ touches' # <<>> => InTouchend']_vars
    /\ [](InTouchend => Live(ivy) = Committed(ivy))
    /\ [][InTouchend /\ (TouchStart \/ TouchMove \/ MouseDown \/ MouseMove
                          \/ (TouchEnd /\ touches' # <<>>))
            => InTouchend' /\ ~GestureProcessed' /\ Live(ivy') = Live(ivy)]_vars
    /\ [][InTouchend /\ ((TouchEnd /\ touches' = <<>>) \/ TouchCancel)
            => tch'.eventType = "none" /\ ivy'.eventType = "none"]_vars

(***************************************************************************)
(* Properties of the transform written to the surface                      *)
(***************************************************************************)
\* C28: in every state a handler leaves, the transform last written to the
\* surface carries the live scale and translation.  Checked in SpecDrag,
\* where a pan brings a zoomed image back to translation (0, 0) before the
\* gesture is cancelled.
C28_TransformIsLive ==
    /\ ivy.transform.scale = ivy.scale
    /\ ivy.transform.x = ivy.moveX
    /\ ivy.transform.y = ivy.moveY

(***************************************************************************)
(* Properties of the scale bounds                                          *)
(***************************************************************************)
\* C29: in every state a handler or a polling callback leaves, the live
\* scale is at most maxScale.  Checked in SpecMouse, where limitZoom is a
\* number below doubleTapScale and below zoomControlScale + 1.
C29_ScaleWithinMax == Le(ivy.scale, ivy.maxScale)

(***************************************************************************)
(* Properties of repeated wheel events (SpecZoom)                          *)
(***************************************************************************)
\* the wheel event just handled was turned up (deltaY < 0), or down
WheelUp ==
    Wheel /\ "wheel" \in tch.listeners /\ params.wheel /\ hist'.wheelRaw = wheelRawScale(ivy, -1)

WheelDown ==
    Wheel /\ "wheel" \in tch.listeners /\ params.wheel /\ hist'.wheelRaw = wheelRawScale(ivy, 1)

\* no gesture is in progress and the committed values are the live ones
AtRest == touches = <<>> /\ ivy.eventType = "none" /\ Live(ivy) = Committed(ivy)

\* C30: the wheel never strands the user short of a bound: a wheel-up event
\* at a committed scale s with 1 <= s < maxScale raises the committed scale
\* (by the step or to exactly maxScale) and a wheel-down event at s > 1
\* lowers it (by the step or to exactly 1), so that repeating the event
\* reaches the bound.  A wheel event that leaves such a scale as it is
\* leaves it so however often it is repeated.
C30_WheelNeverStrands ==
    /\ [][WheelUp /\ AtRest /\ Ge(ivy.initialScale, R(1)) /\ Lt(ivy.initialScale, ivy.maxScale)
            => Gt(ivy'.initialScale, ivy.initialScale) /\ Le(ivy'.initialScale, ivy.maxScale)]_vars
    /\ [][WheelDown /\ AtRest /\ Gt(ivy.initialScale, R(1))
            => Lt(ivy'.initialScale, ivy.initialScale) /\ Ge(ivy'.initialScale, R(1))]_vars

(***************************************************************************)
(* Properties of successive releases (SpecTap)                             *)
(***************************************************************************)
\* the release r emitted a double-tap event
DoubleTapped(r) == r.has /\ \E i \in 1..Len(r.out) : r.out[i] = "double-tap"

\* C31: each release contributes to at most one double-tap: a release that
\* comes some time after a release which emitted double-tap starts a new tap
\* sequence and emits no double-tap itself, so that three releases 100 ms
\* apart emit one double-tap event.
C31_OneDoubleTapPerRelease ==
    ~(DoubleTapped(hist.prev) /\ DoubleTapped(hist.last) /\ hist.last.gap > 0)

=============================================================================
